---- MODULE Spec2Model ----
(***************************************************************************)
(* A model of my-project/face-morph.js: the FaceMorpher pipeline (point    *)
(* interpolation, Bowyer-Watson triangulation, affine solving, triangle    *)
(* rasterisation, bilinear sampling, cross-fade) and the FaceMergeApp page *)
(* that feeds it (uploads, face detections, the blend slider).             *)
(*                                                                         *)
(* Arithmetic.  The program computes in IEEE doubles.  The model computes  *)
(* the same expressions exactly: a coordinate is an integer number of      *)
(* units, UnitsPerPixel units to the pixel, and a quotient is kept as a    *)
(* fraction <<numerator, denominator>>.  On the inputs drawn here every    *)
(* intermediate value of the program is a dyadic or small rational that a  *)
(* double also holds exactly, except where a comment says otherwise.       *)
(***************************************************************************)
EXTENDS Integers, Sequences, FiniteSets, TLC

VARIABLES
    pc,           \* position of the running call
    points,       \* computeDelaunay: its argument
    allPoints,    \* computeDelaunay: [...points, p1, p2, p3]
    triangles,    \* computeDelaunay: the working array of {i, j, k}
    idx,          \* computeDelaunay: the insertion loop's i
    triOut,       \* computeDelaunay: the returned index triples
    args,         \* a direct call of one method: its arguments
    ret,          \* a direct call of one method: what it returned
    landmarks1,   \* morph: its arguments
    landmarks2,
    ratio,
    img1,
    img2,
    allPts1,      \* morph: [...pts1, ...extraPoints]
    allPts2,
    avgPts,       \* morph: the interpolated points
    imgData1,     \* morph: the source pixel buffers
    imgData2,
    outputData,   \* morph: the output pixel buffer
    tnum,         \* morph: how many triangles the loop has processed
    app,          \* FaceMergeApp: this.face1, this.landmarks1, ...
    tasks,        \* FaceMergeApp: file reads, image loads, detections in flight
    blendSlider,  \* FaceMergeApp: blendSlider.value
    uploads,      \* FaceMergeApp: how many files have been selected or dropped
    morphed       \* FaceMergeApp: the arguments of the latest morpher.morph call

dvars == <<points, allPoints, triangles, idx, triOut>>
pvars == <<args, ret>>
mvars == <<landmarks1, landmarks2, ratio, img1, img2, allPts1, allPts2, avgPts,
           imgData1, imgData2, outputData, tnum>>
avars == <<app, tasks, blendSlider, uploads, morphed>>
vars == <<pc, dvars, pvars, mvars, avars>>

(***************************************************************************)
(* Bounds of the model.                                                    *)
(***************************************************************************)
\* Grid coordinates 0..GridMaxX by 0..GridMaxY for the point sequences handed
\* to computeDelaunay on its own.
GridMaxX == 2
GridMaxY == 1
\* The longest point sequence handed to computeDelaunay on its own.
MaxPts == 4
\* The canvas, scaled down from the program's 400 by 400 (the constructor's
\* outputWidth and outputHeight).
outputWidth == 4
outputHeight == 4
\* An eighth of the number of coordinate units to the pixel: landmarks lie on
\* a grid finer than the pixel grid, and the halves the program takes (w / 2,
\* the interpolation at ratio 1/2, dx / 2) are whole numbers of units.
EighthUnits == 2
UnitsPerPixel == 8 * EighthUnits
\* Landmark sites 1..SiteMax and the longest landmark sequence of a morph.
SiteMax == 2
MaxLandmarks == 1
\* How far (in units) a landmark of the near-edge inputs lies from the edge.
EdgeGapMax == 1
\* Grid coordinates 0..TriMax for the triangles handed to pointInTriangle and
\* to computeAffine directly.
TriMax == 2

(***************************************************************************)
(* Helpers of the model's arithmetic.                                      *)
(***************************************************************************)
Pt(px, py) == [x |-> px, y |-> py]

Max2(a, b) == IF a >= b THEN a ELSE b
Min2(a, b) == IF a <= b THEN a ELSE b
SetMax(S) == CHOOSE m \in S : \A n \in S : n <= m
SetMin(S) == CHOOSE m \in S : \A n \in S : m <= n

\* The ascending sequence of a finite set of integers (array order of a filter).
RECURSIVE SortedSeq(_)
SortedSeq(S) ==
    IF S = {} THEN <<>>
    ELSE LET m == SetMin(S) IN <<m>> \o SortedSeq(S \ {m})

\* A product of two integers below 2^30 in magnitude, as three limbs to the
\* base 2^15: the value is l[1]*Base^2 + l[2]*Base + l[3].  The program's
\* doubles hold these products exactly (they stay below 2^53); the model
\* checker's integers are 32 bits wide.
Base == 32768
Hi(v) == v \div Base
Lo(v) == v % Base
LimbMul(a, b) ==
    <<Hi(a) * Hi(b), Hi(a) * Lo(b) + Lo(a) * Hi(b), Lo(a) * Lo(b)>>
\* The sign (-1, 0, 1) of u - v + w for three limb triples.
LimbSign(u, v, w) ==
    LET c0 == u[3] - v[3] + w[3]
        c1 == u[2] - v[2] + w[2] + (c0 \div Base)
        c2 == u[1] - v[1] + w[1] + (c1 \div Base)
        l0 == c0 % Base
        l1 == c1 % Base
    IN  IF c2 > 0 THEN 1
        ELSE IF c2 < 0 THEN -1
        ELSE IF l1 > 0 \/ l0 > 0 THEN 1 ELSE 0

\* Fractions <<n, d>> with d > 0, in lowest terms.  A quotient by zero is
\* the IEEE value: <<1, 0>> is Infinity, <<-1, 0>> is -Infinity and <<0, 0>>
\* is NaN.
RECURSIVE GCD(_, _)
GCD(a, b) == IF b = 0 THEN a ELSE GCD(b, a % b)
Abs(a) == IF a < 0 THEN -a ELSE a
NaN == <<0, 0>>
Frac(n, d) ==
    IF d = 0 THEN <<(IF n > 0 THEN 1 ELSE IF n < 0 THEN -1 ELSE 0), 0>>
    ELSE LET g == GCD(Abs(n), Abs(d))
             s == IF d < 0 THEN -1 ELSE 1
         IN  <<(s * n) \div g, (s * d) \div g>>
FInt(n) == <<n, 1>>
FAdd(p, q) ==
    IF p[2] = 0 \/ q[2] = 0
    THEN (IF q[2] # 0 \/ p = q THEN p ELSE IF p[2] # 0 THEN q ELSE NaN)
    ELSE LET l == (p[2] \div GCD(p[2], q[2])) * q[2]
         IN  Frac(p[1] * (l \div p[2]) + q[1] * (l \div q[2]), l)
FSub(p, q) == FAdd(p, <<-q[1], q[2]>>)
FMul(p, q) == Frac(p[1] * q[1], p[2] * q[2])
FLeq(p, q) == p[1] * q[2] <= q[1] * p[2]
FMin(p, q) == IF FLeq(p, q) THEN p ELSE q
FMax(p, q) == IF FLeq(p, q) THEN q ELSE p
FFloor(p) == p[1] \div p[2]

\* The value of the variables of a call that is not under way.
NoCall == [fn |-> "none"]

\* null
Null == [null |-> TRUE]

\* The fields of a FaceMergeApp after its constructor (lines 373-379), with
\* whether the error element is shown.
NewApp ==
    [face1 |-> Null, face2 |-> Null, landmarks1 |-> Null, landmarks2 |-> Null,
     modelsLoaded |-> FALSE, error |-> FALSE]

\* The variables of the page while only FaceMorpher is exercised.
NoApp ==
    /\ app = NewApp
    /\ tasks = {}
    /\ blendSlider = 50
    /\ uploads = 0
    /\ morphed = NoCall

(***************************************************************************)
(* FaceMorpher.inCircumcircle                                              *)
(***************************************************************************)
\* The sign of det.
CircumDetSign(p, a, b, c) ==
    LET ax == a.x - p.x
        ay == a.y - p.y
        bx == b.x - p.x
        by == b.y - p.y
        cx == c.x - p.x
        cy == c.y - p.y
    IN  LimbSign(LimbMul(ax * ax + ay * ay, bx * cy - cx * by),
                 LimbMul(bx * bx + by * by, ax * cy - cx * ay),
                 LimbMul(cx * cx + cy * cy, ax * by - bx * ay))

Orient(a, b, c) == (a.x - c.x) * (b.y - c.y) - (a.y - c.y) * (b.x - c.x)

inCircumcircle(p, a, b, c) ==
    IF Orient(a, b, c) > 0
    THEN CircumDetSign(p, a, b, c) > 0
    ELSE CircumDetSign(p, a, b, c) < 0

(***************************************************************************)
(* FaceMorpher.computeDelaunay                                             *)
(* Triangle indices are the program's: 0-based into allPoints.             *)
(***************************************************************************)
At(ps, n) == ps[n + 1]

\* The three vertices of the super-triangle.  dx / 2 is exact: every point
\* set drawn here has an even extent in units.
SuperTriangle(ps) ==
    LET xs == {ps[n].x : n \in 1..Len(ps)}
        ys == {ps[n].y : n \in 1..Len(ps)}
        minX == SetMin(xs)
        maxX == SetMax(xs)
        minY == SetMin(ys)
        maxY == SetMax(ys)
        dx == maxX - minX
        dy == maxY - minY
        deltaMax == Max2(dx, dy) * 2
    IN  << Pt(minX - deltaMax, minY - deltaMax),
           Pt(minX + deltaMax * 2, minY - deltaMax),
           Pt(minX + dx \div 2, maxY + deltaMax * 2) >>

Edges(t) == << <<t.i, t.j>>, <<t.j, t.k>>, <<t.k, t.i>> >>

\* Edges compared as directed pairs only.
SameEdgeDirected(e, oe) == e[1] = oe[1] /\ e[2] = oe[2]

SameEdge(e, oe) ==
    \/ e[1] = oe[1] /\ e[2] = oe[2]
    \/ e[1] = oe[2] /\ e[2] = oe[1]

\* Positions (in the working array) of the triangles whose circumcircle
\* contains pt.  The program compares triangles by object identity, which a
\* position in the array is.
BadTriangles(pt, tris, allP) ==
    {q \in 1..Len(tris) :
        inCircumcircle(pt, At(allP, tris[q].i), At(allP, tris[q].j),
                       At(allP, tris[q].k))}

SharedEdge(e, q, bad, tris) ==
    \E o \in bad \ {q} : \E n \in 1..3 : SameEdge(e, Edges(tris[o])[n])

\* The boundary polygon, in the order the program pushes its edges.
RECURSIVE PolygonOf(_, _, _)
PolygonOf(order, bad, tris) ==
    IF order = <<>> THEN <<>>
    ELSE LET q == Head(order)
             keep(e) == ~SharedEdge(e, q, bad, tris)
         IN  SelectSeq(Edges(tris[q]), keep) \o PolygonOf(Tail(order), bad, tris)

Polygon(bad, tris) == PolygonOf(SortedSeq(bad), bad, tris)

\* The insertion with the bad triangles left in the working array.
InsertIntoKeepBad(tris, allP, n) ==
    LET polygon == Polygon(BadTriangles(At(allP, n), tris, allP), tris)
    IN  tris \o [m \in 1..Len(polygon) |->
                    [i |-> polygon[m][1], j |-> polygon[m][2], k |-> n]]

\* One iteration of the insertion loop: the working array after inserting
\* points[n] (0-based n).
InsertInto(tris, allP, n) ==
    LET bad == BadTriangles(At(allP, n), tris, allP)
        polygon == Polygon(bad, tris)
        kept == SortedSeq((1..Len(tris)) \ bad)
    IN  [m \in 1..Len(kept) |-> tris[kept[m]]]
        \o [m \in 1..Len(polygon) |->
               [i |-> polygon[m][1], j |-> polygon[m][2], k |-> n]]

KeepTriangleFirstOnly(t, n) == t.i < n

\* The final filter's predicate.
KeepTriangle(t, n) == t.i < n /\ t.j < n /\ t.k < n

ReturnedTriangles(tris, n) ==
    LET keep(t) == KeepTriangle(t, n)
        left == SelectSeq(tris, keep)
    IN  [m \in 1..Len(left) |-> <<left[m].i, left[m].j, left[m].k>>]

\* computeDelaunay, entry: the early return or the super-triangle and seed.
DelaunayBegin ==
    /\ pc = "delaunay"
    /\ IF Len(points) < 3
       THEN /\ triOut' = <<>>
            /\ pc' = "triangulated"
            /\ UNCHANGED <<allPoints, triangles, idx>>
       ELSE /\ allPoints' = points \o SuperTriangle(points)
            /\ triangles' = << [i |-> Len(points), j |-> Len(points) + 1,
                                k |-> Len(points) + 2] >>
            /\ idx' = 0
            /\ pc' = "insert"
            /\ UNCHANGED triOut
    /\ UNCHANGED <<points, pvars, mvars>>
    /\ UNCHANGED avars

\* computeDelaunay, one iteration of "for (let i = 0; i < n; i++)".
InsertPoint ==
    /\ pc = "insert"
    /\ idx < Len(points)
    /\ triangles' = InsertInto(triangles, allPoints, idx)
    /\ idx' = idx + 1
    /\ UNCHANGED <<pc, points, allPoints, triOut, pvars, mvars>>
    /\ UNCHANGED avars

\* computeDelaunay, after the loop: filter, map, return.
DelaunayReturn ==
    /\ pc = "insert"
    /\ idx = Len(points)
    /\ triOut' = ReturnedTriangles(triangles, Len(points))
    /\ pc' = "triangulated"
    /\ UNCHANGED <<points, allPoints, triangles, idx, pvars, mvars>>
    /\ UNCHANGED avars

(***************************************************************************)
(* FaceMorpher.computeAffine, FaceMorpher.applyAffine                      *)
(* Coefficients are fractions.                                             *)
(***************************************************************************)
IdentityMap ==
    [a |-> FInt(1), b |-> FInt(0), c |-> FInt(0),
     d |-> FInt(0), e |-> FInt(1), f |-> FInt(0)]

AffineDenom(src) ==
    (src[1].x - src[3].x) * (src[2].y - src[3].y)
    - (src[2].x - src[3].x) * (src[1].y - src[3].y)

\* No denominator taken for near zero.
NearZeroNever(denom) == FALSE

\* Math.abs(denom) < 1e-10: on whole coordinates, denom = 0.
NearZero(denom) == denom = 0

\* c computed as u3 - a * x3, the b * y3 term dropped.
AffineOffsetNoB(u3, a, b, x3, y3) == FSub(FInt(u3), FMul(a, FInt(x3)))

\* "c = u3 - a * x3 - b * y3" (and f likewise).
AffineOffset(u3, a, b, x3, y3) ==
    FSub(FSub(FInt(u3), FMul(a, FInt(x3))), FMul(b, FInt(y3)))

computeAffine(src, dst) ==
    LET x1 == src[1].x
        y1 == src[1].y
        x2 == src[2].x
        y2 == src[2].y
        x3 == src[3].x
        y3 == src[3].y
        u1 == dst[1].x
        v1 == dst[1].y
        u2 == dst[2].x
        v2 == dst[2].y
        u3 == dst[3].x
        v3 == dst[3].y
        denom == AffineDenom(src)
    IN  IF NearZero(denom) THEN IdentityMap
        ELSE LET a == Frac((u1 - u3) * (y2 - y3) - (u2 - u3) * (y1 - y3), denom)
                 b == Frac((u2 - u3) * (x1 - x3) - (u1 - u3) * (x2 - x3), denom)
                 d == Frac((v1 - v3) * (y2 - y3) - (v2 - v3) * (y1 - y3), denom)
                 e == Frac((v2 - v3) * (x1 - x3) - (v1 - v3) * (x2 - x3), denom)
             IN  [a |-> a, b |-> b, c |-> AffineOffset(u3, a, b, x3, y3),
                  d |-> d, e |-> e, f |-> AffineOffset(v3, d, e, x3, y3)]

\* x and y are whole; the result's coordinates are fractions.
applyAffine(M, x, y) ==
    [x |-> FAdd(FAdd(FMul(M.a, FInt(x)), FMul(M.b, FInt(y))), M.c),
     y |-> FAdd(FAdd(FMul(M.d, FInt(x)), FMul(M.e, FInt(y))), M.f)]

(***************************************************************************)
(* FaceMorpher.pointInTriangle                                             *)
(***************************************************************************)
\* n * inv when inv = 1 / 0 = Infinity: NaN, Infinity or -Infinity.  Of these
\* only Infinity is >= 0 and only -Infinity is <= 1.
TimesInfinity(n) == IF n = 0 THEN "NaN" ELSE IF n > 0 THEN "+Inf" ELSE "-Inf"

\* The test with u + v <= 1 left out.
pointInTriangleNoSum(p, tri) ==
    LET v0 == Pt(tri[3].x - tri[1].x, tri[3].y - tri[1].y)
        v1 == Pt(tri[2].x - tri[1].x, tri[2].y - tri[1].y)
        v2 == Pt(p.x - tri[1].x, p.y - tri[1].y)
        dot00 == v0.x * v0.x + v0.y * v0.y
        dot01 == v0.x * v1.x + v0.y * v1.y
        dot02 == v0.x * v2.x + v0.y * v2.y
        dot11 == v1.x * v1.x + v1.y * v1.y
        dot12 == v1.x * v2.x + v1.y * v2.y
        den == dot00 * dot11 - dot01 * dot01
        s == IF den > 0 THEN 1 ELSE -1
    IN  den # 0 /\ s * (dot11 * dot02 - dot01 * dot12) >= 0
                /\ s * (dot00 * dot12 - dot01 * dot02) >= 0

\* u = nu * inv and v = nv * inv with inv = 1 / den.  For den # 0 the three
\* comparisons are made on the numerators; for den = 0 on the IEEE values
\* (a comparison with NaN is false, Infinity + Infinity = Infinity > 1).
pointInTriangle(p, tri) ==
    LET v0 == Pt(tri[3].x - tri[1].x, tri[3].y - tri[1].y)
        v1 == Pt(tri[2].x - tri[1].x, tri[2].y - tri[1].y)
        v2 == Pt(p.x - tri[1].x, p.y - tri[1].y)
        dot00 == v0.x * v0.x + v0.y * v0.y
        dot01 == v0.x * v1.x + v0.y * v1.y
        dot02 == v0.x * v2.x + v0.y * v2.y
        dot11 == v1.x * v1.x + v1.y * v1.y
        dot12 == v1.x * v2.x + v1.y * v2.y
        den == dot00 * dot11 - dot01 * dot01
        nu == dot11 * dot02 - dot01 * dot12
        nv == dot00 * dot12 - dot01 * dot02
        s == IF den > 0 THEN 1 ELSE -1
    IN  IF den # 0
        THEN s * nu >= 0 /\ s * nv >= 0 /\ s * (nu + nv) <= s * den
        ELSE LET u == TimesInfinity(nu)
                 v == TimesInfinity(nv)
                 sum == IF u = "NaN" \/ v = "NaN" \/ u # v THEN "NaN" ELSE u
             IN  u = "+Inf" /\ v = "+Inf" /\ sum = "-Inf"

(***************************************************************************)
(* FaceMorpher.sampleBilinear                                              *)
(* imgData is the data array: a function on 0..(4 * w * h - 1).            *)
(***************************************************************************)
\* The upper clamp w - 1.001 of a coordinate.
ClampHigh(size) == Frac(1000 * size - 1001, 1000)

\* The clamp from above only: "Math.min(w - 1.001, x)".
ClampCoordHighOnly(x, size) == FMin(ClampHigh(size), x)

\* "Math.max(0, Math.min(w - 1.001, x))"
ClampCoord(x, size) == FMax(FInt(0), FMin(ClampHigh(size), x))

\* "Math.min(x0 + 1, w - 1)"
NextTexel(x0, size) == Min2(x0 + 1, size - 1)

\* x0, x1, y0, y1 and the weights fx, fy of a sample at (x, y).
SampleCell(x, y) ==
    LET cx == ClampCoord(x, outputWidth)
        cy == ClampCoord(y, outputHeight)
        x0 == FFloor(cx)
        y0 == FFloor(cy)
    IN  [x0 |-> x0, y0 |-> y0,
         x1 |-> NextTexel(x0, outputWidth), y1 |-> NextTexel(y0, outputHeight),
         fx |-> FSub(cx, FInt(x0)), fy |-> FSub(cy, FInt(y0))]

PixelIndex(px, py) == (py * outputWidth + px) * 4

\* A read of the data array: outside the array JavaScript yields undefined,
\* and arithmetic on undefined yields NaN.
Undefined == -1
ReadData(imgData, n) == IF n \in DOMAIN imgData THEN imgData[n] ELSE Undefined

getPixel(imgData, px, py) ==
    LET n == PixelIndex(px, py)
    IN  [r |-> ReadData(imgData, n), g |-> ReadData(imgData, n + 1),
         b |-> ReadData(imgData, n + 2)]

\* (c00 * (1 - fx) + c10 * fx) * (1 - fy) + (c01 * (1 - fx) + c11 * fx) * fy
Bilinear(c00, c10, c01, c11, fx, fy) ==
    LET gx == FSub(FInt(1), fx)
        gy == FSub(FInt(1), fy)
    IN  IF Undefined \in {c00, c10, c01, c11} THEN NaN
        ELSE FAdd(FMul(FAdd(FMul(FInt(c00), gx), FMul(FInt(c10), fx)), gy),
                  FMul(FAdd(FMul(FInt(c01), gx), FMul(FInt(c11), fx)), fy))

sampleBilinear(imgData, x, y) ==
    LET s == SampleCell(x, y)
        p00 == getPixel(imgData, s.x0, s.y0)
        p10 == getPixel(imgData, s.x1, s.y0)
        p01 == getPixel(imgData, s.x0, s.y1)
        p11 == getPixel(imgData, s.x1, s.y1)
    IN  [r |-> Bilinear(p00.r, p10.r, p01.r, p11.r, s.fx, s.fy),
         g |-> Bilinear(p00.g, p10.g, p01.g, p11.g, s.fx, s.fy),
         b |-> Bilinear(p00.b, p10.b, p01.b, p11.b, s.fx, s.fy)]

\* The indices of the data array that sampleBilinear(_, x, y) reads.
SampleReads(x, y) ==
    LET s == SampleCell(x, y)
    IN  {PixelIndex(px, py) + ch : px \in {s.x0, s.x1}, py \in {s.y0, s.y1},
                                   ch \in 0..2}

(***************************************************************************)
(* Source pixel buffers: what getImageData returns for a scaled image.     *)
(***************************************************************************)
DataIndices == 0..(4 * outputWidth * outputHeight - 1)

ImageKinds == {"red", "blue", "ramp", "check"}

Texel(kind, x, y, ch) ==
    IF ch = 3 THEN 255
    ELSE IF kind = "red" THEN (IF ch = 0 THEN 255 ELSE 0)
    ELSE IF kind = "blue" THEN (IF ch = 2 THEN 255 ELSE 0)
    ELSE IF kind = "ramp"
         THEN (IF ch = 0 THEN (50 * x) % 256
               ELSE IF ch = 1 THEN (50 * y) % 256
               ELSE (255 - 25 * (x + y)) % 256)
    ELSE (IF ch = 0 THEN (IF (x + y) % 2 = 0 THEN 255 ELSE 0)
          ELSE IF ch = 1 THEN (IF (x + y) % 2 = 0 THEN 0 ELSE 255)
          ELSE 128)

ImageData(kind) ==
    [n \in DataIndices |->
        Texel(kind, (n \div 4) % outputWidth, (n \div 4) \div outputWidth, n % 4)]

(***************************************************************************)
(* FaceMorpher.normalizeLandmarks, getBoundaryPoints, interpolatePoints    *)
(* Points are in units; a ratio is a fraction.                             *)
(***************************************************************************)
\* (pt.x / imgWidth) * outputWidth; whole on the inputs drawn here.
normalizeLandmarks(landmarks, imgWidth, imgHeight) ==
    [n \in 1..Len(landmarks) |->
        Pt((landmarks[n].x * outputWidth) \div imgWidth,
           (landmarks[n].y * outputHeight) \div imgHeight)]

getBoundaryPoints ==
    LET w == outputWidth * UnitsPerPixel
        h == outputHeight * UnitsPerPixel
        u == UnitsPerPixel
    IN  << Pt(0, 0), Pt(w \div 2, 0), Pt(w - u, 0), Pt(w - u, h \div 2),
           Pt(w - u, h - u), Pt(w \div 2, h - u), Pt(0, h - u), Pt(0, h \div 2) >>

\* The weights the wrong way round: pt * ratio + pts2[i] * (1 - ratio).
LerpSwapped(a, b, r) == (a * r[1] + b * (r[2] - r[1])) \div r[2]

\* a * (1 - ratio) + b * ratio; whole on the inputs drawn here.
Lerp(a, b, r) == (a * (r[2] - r[1]) + b * r[1]) \div r[2]

\* pts1.map((pt, i) => ...): reading pts2[i].x throws a TypeError when pts2
\* is the shorter; entries of pts2 beyond pts1's length are never read.
InterpolateThrows(pts1, pts2) == Len(pts2) < Len(pts1)

interpolatePoints(pts1, pts2, r) ==
    [n \in 1..Len(pts1) |->
        Pt(Lerp(pts1[n].x, pts2[n].x, r), Lerp(pts1[n].y, pts2[n].y, r))]

(***************************************************************************)
(* FaceMorpher.warpTriangle                                                *)
(***************************************************************************)
FloorPixel(u) == u \div UnitsPerPixel
CeilPixel(u) == -((-u) \div UnitsPerPixel)

\* The pixel (x, y) as a point in units.
PixelPoint(x, y) == Pt(x * UnitsPerPixel, y * UnitsPerPixel)

\* A store into a Uint8ClampedArray: round to nearest, ties to even, clamp.
ToUint8Clamped(v) ==
    LET q == v[1] \div v[2]
        rem == v[1] - q * v[2]
        rounded == IF 2 * rem < v[2] THEN q
                   ELSE IF 2 * rem > v[2] THEN q + 1
                   ELSE IF q % 2 = 0 THEN q ELSE q + 1
    IN  IF rounded < 0 THEN 0 ELSE IF rounded > 255 THEN 255 ELSE rounded

\* The weights the wrong way round.
BlendSwapped(c1, c2, r) ==
    FAdd(FMul(c1, Frac(r[1], r[2])), FMul(c2, Frac(r[2] - r[1], r[2])))

\* color1 * (1 - ratio) + color2 * ratio
Blend(c1, c2, r) ==
    FAdd(FMul(c1, Frac(r[2] - r[1], r[2])), FMul(c2, Frac(r[1], r[2])))

\* The pixels of the bounding box that pass both tests of the loop body.
WarpPixels(dstTri) ==
    LET xs == {dstTri[n].x : n \in 1..3}
        ys == {dstTri[n].y : n \in 1..3}
        minX == FloorPixel(SetMin(xs))
        maxX == CeilPixel(SetMax(xs))
        minY == FloorPixel(SetMin(ys))
        maxY == CeilPixel(SetMax(ys))
    IN  {q \in (minX..maxX) \X (minY..maxY) :
            /\ ~(q[1] < 0 \/ q[1] >= outputWidth \/ q[2] < 0 \/ q[2] >= outputHeight)
            /\ pointInTriangle(PixelPoint(q[1], q[2]), dstTri)}

\* The sample position in pixels of the pixel (x, y) under the map M.
SourcePosition(M, x, y) ==
    LET at == applyAffine(M, x * UnitsPerPixel, y * UnitsPerPixel)
    IN  [x |-> FMul(at.x, Frac(1, UnitsPerPixel)),
         y |-> FMul(at.y, Frac(1, UnitsPerPixel))]

\* The four bytes warpTriangle stores for the pixel (x, y).
WarpedPixel(data1, M1, data2, M2, r, x, y) ==
    LET src1 == SourcePosition(M1, x, y)
        src2 == SourcePosition(M2, x, y)
        color1 == sampleBilinear(data1, src1.x, src1.y)
        color2 == sampleBilinear(data2, src2.x, src2.y)
    IN  << ToUint8Clamped(Blend(color1.r, color2.r, r)),
           ToUint8Clamped(Blend(color1.g, color2.g, r)),
           ToUint8Clamped(Blend(color1.b, color2.b, r)),
           255 >>

\* The output buffer after warpTriangle.
warpTriangle(data1, srcTri1, data2, srcTri2, out, dstTri, r) ==
    LET M1 == computeAffine(dstTri, srcTri1)
        M2 == computeAffine(dstTri, srcTri2)
        pixels == WarpPixels(dstTri)
        stored == [q \in pixels |->
                      WarpedPixel(data1, M1, data2, M2, r, q[1], q[2])] @@ <<>>
    IN  [n \in DOMAIN out |->
            LET q == <<(n \div 4) % outputWidth, (n \div 4) \div outputWidth>>
            IN  IF q \in pixels THEN stored[q][(n % 4) + 1] ELSE out[n]]

(***************************************************************************)
(* FaceMorpher.morph                                                       *)
(***************************************************************************)
TriangleOf(pts, t) == <<At(pts, t[1]), At(pts, t[2]), At(pts, t[3])>>

\* Lines 23-35: normalise, append the boundary points, interpolate, and call
\* computeDelaunay on the interpolated points.
MorphBegin ==
    /\ pc = "morph"
    /\ LET pts1 == normalizeLandmarks(landmarks1, img1.width, img1.height)
           pts2 == normalizeLandmarks(landmarks2, img2.width, img2.height)
           all1 == pts1 \o getBoundaryPoints
           all2 == pts2 \o getBoundaryPoints
       IN  /\ allPts1' = all1
           /\ allPts2' = all2
           /\ IF InterpolateThrows(all1, all2)
              THEN /\ pc' = "threw"
                   /\ UNCHANGED <<avgPts, points>>
              ELSE /\ avgPts' = interpolatePoints(all1, all2, ratio)
                   /\ points' = avgPts'
                   /\ pc' = "delaunay"
    /\ UNCHANGED <<allPoints, triangles, idx, triOut, pvars, landmarks1,
                   landmarks2, ratio, img1, img2, imgData1, imgData2,
                   outputData, tnum>>
    /\ UNCHANGED avars

\* Lines 38-50: the source buffers and the blank output buffer.
WarpBegin ==
    /\ pc = "triangulated"
    /\ imgData1' = ImageData(img1.kind)
    /\ imgData2' = ImageData(img2.kind)
    /\ outputData' = [n \in DataIndices |-> 0]
    /\ tnum' = 0
    /\ pc' = "warp"
    /\ UNCHANGED <<dvars, pvars, landmarks1, landmarks2, ratio, img1, img2,
                   allPts1, allPts2, avgPts>>
    /\ UNCHANGED avars

\* Lines 53-63: one iteration of "for (const tri of triangles)".
WarpTriangle ==
    /\ pc = "warp"
    /\ tnum < Len(triOut)
    /\ LET tri == triOut[tnum + 1]
       IN  outputData' = warpTriangle(imgData1, TriangleOf(allPts1, tri),
                                      imgData2, TriangleOf(allPts2, tri),
                                      outputData, TriangleOf(avgPts, tri), ratio)
    /\ tnum' = tnum + 1
    /\ UNCHANGED <<pc, dvars, pvars, landmarks1, landmarks2, ratio, img1, img2,
                   allPts1, allPts2, avgPts, imgData1, imgData2>>
    /\ UNCHANGED avars

\* Line 65: return outputData.
MorphReturn ==
    /\ pc = "warp"
    /\ tnum = Len(triOut)
    /\ pc' = "done"
    /\ UNCHANGED <<dvars, pvars, mvars>>
    /\ UNCHANGED avars

NextMorph ==
    \/ MorphBegin
    \/ DelaunayBegin
    \/ InsertPoint
    \/ DelaunayReturn
    \/ WarpBegin
    \/ WarpTriangle
    \/ MorphReturn

\* The variables of morph while no morph is under way.
NoMorph ==
    /\ landmarks1 = <<>>
    /\ landmarks2 = <<>>
    /\ ratio = <<0, 1>>
    /\ img1 = NoCall
    /\ img2 = NoCall
    /\ allPts1 = <<>>
    /\ allPts2 = <<>>
    /\ avgPts = <<>>
    /\ imgData1 = <<>>
    /\ imgData2 = <<>>
    /\ outputData = <<>>
    /\ tnum = 0

(***************************************************************************)
(* morph over landmark sequences of up to MaxLandmarks points each, the    *)
(* two sequences independent in content and in length.                     *)
(***************************************************************************)
\* Landmark site g, in units of the canvas: at half-pixel positions, strictly
\* inside the canvas.
Site(g) ==
    Pt(UnitsPerPixel * g - UnitsPerPixel \div 2,
       (UnitsPerPixel \div 2) * (((3 * g) % 5) + 1))

\* A landmark one pixel from the left edge and e units from the top edge.
EdgeSite(e) == Pt(UnitsPerPixel, e)

Sites == {Site(g) : g \in 1..SiteMax} \cup {EdgeSite(e) : e \in 1..EdgeGapMax}

LandmarkSeqs(n) == [1..n -> Sites]

Ratios == {<<0, 1>>, <<1, 2>>, <<1, 1>>}

\* A source image: its size in multiples of the canvas, and its content once
\* drawn onto a canvas of the output size.
Image(scale, kind) ==
    [width |-> scale * outputWidth, height |-> scale * outputHeight,
     kind |-> kind]

\* Landmarks as the detector reports them, in the image's own pixel space.
InImageSpace(sites, scale) ==
    [n \in 1..Len(sites) |-> Pt(scale * sites[n].x, scale * sites[n].y)]

ImagePairs ==
    {<<Image(2, "ramp"), Image(1, "check")>>,
     <<Image(1, "red"), Image(1, "blue")>>}

MorphCall(l1, l2, r, pair) ==
    /\ pc = "morph"
    /\ img1 = pair[1]
    /\ img2 = pair[2]
    /\ landmarks1 = InImageSpace(l1, pair[1].width \div outputWidth)
    /\ landmarks2 = InImageSpace(l2, pair[2].width \div outputWidth)
    /\ ratio = r
    /\ allPts1 = <<>>
    /\ allPts2 = <<>>
    /\ avgPts = <<>>
    /\ imgData1 = <<>>
    /\ imgData2 = <<>>
    /\ outputData = <<>>
    /\ tnum = 0
    /\ points = <<>>
    /\ allPoints = <<>>
    /\ triangles = <<>>
    /\ idx = 0
    /\ triOut = <<>>
    /\ args = NoCall
    /\ ret = NoCall
    /\ NoApp

InitMorph ==
    \E n1 \in 0..MaxLandmarks, n2 \in 0..MaxLandmarks :
        \E l1 \in LandmarkSeqs(n1), l2 \in LandmarkSeqs(n2), r \in Ratios,
           pair \in ImagePairs :
            MorphCall(l1, l2, r, pair)

SpecMorph == InitMorph /\ [][NextMorph]_vars

(***************************************************************************)
(* computeDelaunay on its own, over point sequences of a bounded grid.     *)
(* Coordinates are in half grid steps, so that dx / 2 is whole.            *)
(***************************************************************************)
GridPoints == {Pt(2 * gx, 2 * gy) : gx \in 0..GridMaxX, gy \in 0..GridMaxY}

\* The point sequences of length n over the grid.
PointSeqs(n) == [1..n -> GridPoints]

InitDelaunay ==
    /\ pc = "delaunay"
    /\ \E n \in 0..MaxPts : points \in PointSeqs(n)
    /\ allPoints = <<>>
    /\ triangles = <<>>
    /\ idx = 0
    /\ triOut = <<>>
    /\ args = NoCall
    /\ ret = NoCall
    /\ NoMorph
    /\ NoApp

NextDelaunay == DelaunayBegin \/ InsertPoint \/ DelaunayReturn

SpecDelaunay == InitDelaunay /\ [][NextDelaunay]_vars

(***************************************************************************)
(* Direct calls of pointInTriangle, computeAffine and sampleBilinear.      *)
(***************************************************************************)
TriGridPoints == {Pt(gx, gy) : gx \in 0..TriMax, gy \in 0..TriMax}
Tris == [1..3 -> TriGridPoints]

\* Probe points on and around the grid.
ProbePoints == {Pt(gx, gy) : gx \in -1..(TriMax + 1), gy \in -1..(TriMax + 1)}

\* A triangle with its coordinates tripled, so that its centroid is whole.
Tripled(t) == [n \in 1..3 |-> Pt(3 * t[n].x, 3 * t[n].y)]
CentroidOfTripled(t) ==
    Pt(t[1].x + t[2].x + t[3].x, t[1].y + t[2].y + t[3].y)

\* Destination triangles: vertices among three points off the grid's axes.
DstPoints == {Pt(-1, 0), Pt(TriMax + 1, 1), Pt(1, TriMax)}
DstTris == [1..3 -> DstPoints]

\* Sample coordinates in pixels, in steps of half a pixel from below the
\* canvas to beyond it.
SampleCoords == {Frac(n, 2) : n \in -3..(2 * outputWidth + 3)}

\* Points handed to interpolatePoints directly: even coordinates, so that
\* the point half way between two of them is whole.
LerpPoints == {Pt(2 * q.x, 2 * q.y) : q \in DstPoints}

\* The arguments of one direct call.
CallArgs(a) ==
    \/ \E n \in 0..MaxPts : \E p1 \in [1..n -> LerpPoints],
                              p2 \in [1..n -> LerpPoints], r \in Ratios :
           a = [fn |-> "interpolatePoints", pts1 |-> p1, pts2 |-> p2,
                ratio |-> r]
    \/ \E t \in Tris, q \in ProbePoints :
           a = [fn |-> "pointInTriangle", tri |-> t, p |-> q]
    \/ \E t \in Tris :
           a = [fn |-> "pointInTriangle", tri |-> Tripled(t),
                p |-> CentroidOfTripled(t)]
    \/ \E t \in Tris, d \in DstTris :
           a = [fn |-> "computeAffine", src |-> t, dst |-> d]
    \/ \E kind \in ImageKinds, sx \in SampleCoords, sy \in SampleCoords :
           a = [fn |-> "sampleBilinear", imgData |-> ImageData(kind),
                x |-> sx, y |-> sy]

CallPointInTriangle ==
    /\ pc = "call"
    /\ args.fn = "pointInTriangle"
    /\ ret' = pointInTriangle(args.p, args.tri)
    /\ pc' = "returned"
    /\ UNCHANGED <<args, dvars, mvars>>
    /\ UNCHANGED avars

\* computeAffine(src, dst), and applyAffine of the result to src's vertices.
CallComputeAffine ==
    /\ pc = "call"
    /\ args.fn = "computeAffine"
    /\ LET M == computeAffine(args.src, args.dst)
       IN  ret' = [M |-> M,
                   image |-> [n \in 1..3 |->
                                 applyAffine(M, args.src[n].x, args.src[n].y)]]
    /\ pc' = "returned"
    /\ UNCHANGED <<args, dvars, mvars>>
    /\ UNCHANGED avars

CallSampleBilinear ==
    /\ pc = "call"
    /\ args.fn = "sampleBilinear"
    /\ ret' = [color |-> sampleBilinear(args.imgData, args.x, args.y),
               reads |-> SampleReads(args.x, args.y)]
    /\ pc' = "returned"
    /\ UNCHANGED <<args, dvars, mvars>>
    /\ UNCHANGED avars

CallInterpolatePoints ==
    /\ pc = "call"
    /\ args.fn = "interpolatePoints"
    /\ ret' = IF InterpolateThrows(args.pts1, args.pts2) THEN "TypeError"
              ELSE interpolatePoints(args.pts1, args.pts2, args.ratio)
    /\ pc' = "returned"
    /\ UNCHANGED <<args, dvars, mvars>>
    /\ UNCHANGED avars

InitCalls ==
    /\ pc = "call"
    /\ CallArgs(args)
    /\ ret = NoCall
    /\ points = <<>>
    /\ allPoints = <<>>
    /\ triangles = <<>>
    /\ idx = 0
    /\ triOut = <<>>
    /\ NoMorph
    /\ NoApp

NextCalls ==
    \/ CallPointInTriangle
    \/ CallComputeAffine
    \/ CallSampleBilinear
    \/ CallInterpolatePoints

SpecCalls == InitCalls /\ [][NextCalls]_vars

(***************************************************************************)
(* FaceMergeApp: the page's handlers and the asynchronous work between     *)
(* them.  An image is named by the number of the upload that made it; the  *)
(* landmarks detected in image k are [of |-> k].  A task is a piece of     *)
(* work in flight: the model download, a FileReader read, an Image decode  *)
(* or a face detection; tasks complete in any order.                       *)
(***************************************************************************)
\* How many files are selected or dropped in all.
MaxUploads == 3

Slots == {1, 2}
SliderValues == {0, 50, 100}

ModelsTask == [id |-> 0, slot |-> 0, stage |-> "models"]

Task(k, slot, stage) == [id |-> k, slot |-> slot, stage |-> stage]

\* this.face1 / this.face2 and this.landmarks1 / this.landmarks2 by slot.
SetFace(a, slot, img) ==
    IF slot = 1 THEN [a EXCEPT !.face1 = img] ELSE [a EXCEPT !.face2 = img]
SetLandmarks(a, slot, lm) ==
    IF slot = 1 THEN [a EXCEPT !.landmarks1 = lm]
    ELSE [a EXCEPT !.landmarks2 = lm]

\* "this.landmarks1 && this.landmarks2"
BothLandmarks(a) == a.landmarks1 # Null /\ a.landmarks2 # Null

\* performMorph: the arguments it hands to morpher.morph.
performMorph(a, slider) ==
    [fn |-> "morph", img1 |-> a.face1, img2 |-> a.face2,
     landmarks1 |-> a.landmarks1, landmarks2 |-> a.landmarks2,
     ratio |-> <<slider, 100>>]

\* loadModels, both downloads done: the page is shown.
ModelsLoaded ==
    /\ pc = "page"
    /\ ModelsTask \in tasks
    /\ tasks' = tasks \ {ModelsTask}
    /\ app' = [app EXCEPT !.modelsLoaded = TRUE]
    /\ UNCHANGED <<pc, dvars, pvars, mvars, blendSlider, uploads, morphed>>

\* loadModels, a download failed: the page stays hidden.
ModelsFailed ==
    /\ pc = "page"
    /\ ModelsTask \in tasks
    /\ tasks' = tasks \ {ModelsTask}
    /\ app' = [app EXCEPT !.error = "models"]
    /\ UNCHANGED <<pc, dvars, pvars, mvars, blendSlider, uploads, morphed>>

\* A file chosen or dropped for a slot: processFile starts the read.
SelectFile(slot) ==
    /\ pc = "page"
    /\ app.modelsLoaded
    /\ uploads < MaxUploads
    /\ uploads' = uploads + 1
    /\ tasks' = tasks \cup {Task(uploads + 1, slot, "read")}
    /\ UNCHANGED <<pc, dvars, pvars, mvars, app, blendSlider, morphed>>

\* reader.onload: the image starts to decode.
ReaderOnload(t) ==
    /\ pc = "page"
    /\ t.stage = "read"
    /\ tasks' = (tasks \ {t}) \cup {Task(t.id, t.slot, "decode")}
    /\ UNCHANGED <<pc, dvars, pvars, mvars, app, blendSlider, uploads, morphed>>

\* img.onload: the image is stored for its slot and detectFace runs up to its
\* await (hideError, the detection started).
ImgOnload(t) ==
    /\ pc = "page"
    /\ t.stage = "decode"
    /\ app' = [SetFace(app, t.slot, t.id) EXCEPT !.error = FALSE]
    /\ tasks' = (tasks \ {t}) \cup {Task(t.id, t.slot, "detect")}
    /\ UNCHANGED <<pc, dvars, pvars, mvars, blendSlider, uploads, morphed>>

\* detectFace after its await, a face found: the landmarks are stored for the
\* slot and, with both slots' landmarks present, performMorph runs.
DetectFound(t) ==
    /\ pc = "page"
    /\ t.stage = "detect"
    /\ tasks' = tasks \ {t}
    /\ app' = SetLandmarks(app, t.slot, [of |-> t.id])
    /\ morphed' = IF BothLandmarks(app') THEN performMorph(app', blendSlider)
                  ELSE morphed
    /\ UNCHANGED <<pc, dvars, pvars, mvars, blendSlider, uploads>>

\* detectFace after its await, no face in the image.
DetectNone(t) ==
    /\ pc = "page"
    /\ t.stage = "detect"
    /\ tasks' = tasks \ {t}
    /\ app' = [app EXCEPT !.error = "no face"]
    /\ UNCHANGED <<pc, dvars, pvars, mvars, blendSlider, uploads, morphed>>

\* detectFace after its await, the detection rejected.
DetectError(t) ==
    /\ pc = "page"
    /\ t.stage = "detect"
    /\ tasks' = tasks \ {t}
    /\ app' = [app EXCEPT !.error = "detection"]
    /\ UNCHANGED <<pc, dvars, pvars, mvars, blendSlider, uploads, morphed>>

\* The blend slider's input event.
SliderInput(v) ==
    /\ pc = "page"
    /\ app.modelsLoaded
    /\ v # blendSlider
    /\ blendSlider' = v
    /\ morphed' = IF BothLandmarks(app) THEN performMorph(app, v) ELSE morphed
    /\ UNCHANGED <<pc, dvars, pvars, mvars, app, tasks, uploads>>

InitApp ==
    /\ pc = "page"
    /\ app = NewApp
    /\ tasks = {ModelsTask}
    /\ blendSlider = 50
    /\ uploads = 0
    /\ morphed = NoCall
    /\ points = <<>>
    /\ allPoints = <<>>
    /\ triangles = <<>>
    /\ idx = 0
    /\ triOut = <<>>
    /\ args = NoCall
    /\ ret = NoCall
    /\ NoMorph

NextApp ==
    \/ ModelsLoaded
    \/ ModelsFailed
    \/ \E slot \in Slots : SelectFile(slot)
    \/ \E t \in tasks : ReaderOnload(t)
    \/ \E t \in tasks : ImgOnload(t)
    \/ \E t \in tasks : DetectFound(t)
    \/ \E t \in tasks : DetectNone(t)
    \/ \E t \in tasks : DetectError(t)
    \/ \E v \in SliderValues : SliderInput(v)

SpecApp == InitApp /\ [][NextApp]_vars

(***************************************************************************)
(* Geometry the claims are stated in, independent of the program's tests.  *)
(***************************************************************************)
Cross(o, a, b) == (a.x - o.x) * (b.y - o.y) - (a.y - o.y) * (b.x - o.x)

AllCollinear(ps) ==
    \A l, m, n \in 1..Len(ps) : Cross(ps[l], ps[m], ps[n]) = 0

\* Twice the signed area times two, and the circumcentre's numerators: the
\* circumcentre of a, b, c is (CircumX / CircumD, CircumY / CircumD).
CircumD(a, b, c) ==
    2 * (a.x * (b.y - c.y) + b.x * (c.y - a.y) + c.x * (a.y - b.y))
CircumX(a, b, c) ==
    (a.x * a.x + a.y * a.y) * (b.y - c.y) + (b.x * b.x + b.y * b.y) * (c.y - a.y)
    + (c.x * c.x + c.y * c.y) * (a.y - b.y)
CircumY(a, b, c) ==
    (a.x * a.x + a.y * a.y) * (c.x - b.x) + (b.x * b.x + b.y * b.y) * (a.x - c.x)
    + (c.x * c.x + c.y * c.y) * (b.x - a.x)

\* |q - centre|^2 - |a - centre|^2, times |CircumD|: negative when q is
\* strictly inside the circumcircle, positive when strictly outside.
CirclePower(q, a, b, c) ==
    LET d == CircumD(a, b, c)
        s == IF d > 0 THEN 1 ELSE -1
    IN  s * ((q.x * q.x + q.y * q.y - a.x * a.x - a.y * a.y) * d
             - 2 * ((q.x - a.x) * CircumX(a, b, c) + (q.y - a.y) * CircumY(a, b, c)))

StrictlyInsideCircumcircle(q, a, b, c) ==
    CircumD(a, b, c) # 0 /\ CirclePower(q, a, b, c) < 0

TriPoints(ps, t) == <<At(ps, t[1]), At(ps, t[2]), At(ps, t[3])>>

\* C1: when computeDelaunay returns for N >= 3 points that are not all
\* collinear, no input point lies strictly inside the circumcircle of a
\* returned triangle.
C1_EmptyCircumcircle ==
    (pc = "triangulated" /\ Len(points) >= 3 /\ ~AllCollinear(points)) =>
        \A m \in 1..Len(triOut) : \A n \in 1..Len(points) :
            LET tp == TriPoints(points, triOut[m])
            IN  ~StrictlyInsideCircumcircle(points[n], tp[1], tp[2], tp[3])

\* A returned triangulation of two or more triangles with an input point
\* strictly outside one of the circumcircles (the points are not cocircular).
C1_Witness ==
    /\ pc = "triangulated"
    /\ Len(points) >= 4
    /\ ~AllCollinear(points)
    /\ Len(triOut) >= 2
    /\ \E m \in 1..Len(triOut) : \E n \in 1..Len(points) :
           LET tp == TriPoints(points, triOut[m])
           IN  CircumD(tp[1], tp[2], tp[3]) # 0
               /\ CirclePower(points[n], tp[1], tp[2], tp[3]) > 0

\* C4: when computeDelaunay returns for N >= 3 points, every returned
\* triangle is a triple of pairwise distinct indices in 0..N-1.
C4_IndicesInRange ==
    (pc = "triangulated" /\ Len(points) >= 3) =>
        \A m \in 1..Len(triOut) :
            /\ \A n \in 1..3 : triOut[m][n] \in 0..(Len(points) - 1)
            /\ triOut[m][1] # triOut[m][2]
            /\ triOut[m][2] # triOut[m][3]
            /\ triOut[m][1] # triOut[m][3]

\* A return at which the filter discarded triangles of the working array
\* that held a super-triangle vertex, and kept some.
C4_Witness ==
    /\ pc = "triangulated"
    /\ Len(points) >= 3
    /\ Len(triOut) >= 1
    /\ \E m \in 1..Len(triangles) : triangles[m].k >= Len(points)
                                       \/ triangles[m].i >= Len(points)
                                       \/ triangles[m].j >= Len(points)

IsCentroid(p, tri) ==
    /\ 3 * p.x = tri[1].x + tri[2].x + tri[3].x
    /\ 3 * p.y = tri[1].y + tri[2].y + tri[3].y

OutsideBoundingBox(p, tri) ==
    \/ \A n \in 1..3 : p.x < tri[n].x
    \/ \A n \in 1..3 : p.x > tri[n].x
    \/ \A n \in 1..3 : p.y < tri[n].y
    \/ \A n \in 1..3 : p.y > tri[n].y

ZeroArea(tri) == Cross(tri[1], tri[2], tri[3]) = 0

\* C6: pointInTriangle classifies the centroid of every triangle, zero-area
\* triangles included, as inside, and every point outside the triangle's
\* bounding box as outside.
C6_CentroidInsideOutsideBox ==
    (pc = "returned" /\ args.fn = "pointInTriangle") =>
        /\ IsCentroid(args.p, args.tri) => ret = TRUE
        /\ OutsideBoundingBox(args.p, args.tri) => ret = FALSE

\* C6, the part the program keeps: for a triangle of non-zero area the centroid
\* is inside; for every triangle a point outside the bounding box is outside.
C6_NonZeroArea ==
    (pc = "returned" /\ args.fn = "pointInTriangle") =>
        /\ (IsCentroid(args.p, args.tri) /\ ~ZeroArea(args.tri)) => ret = TRUE
        /\ OutsideBoundingBox(args.p, args.tri) => ret = FALSE

Between(v, S) ==
    /\ v # NaN
    /\ \E lo \in S : FLeq(FInt(lo), v)
    /\ \E hi \in S : FLeq(v, FInt(hi))

\* C9: sampleBilinear reads only indices 0..W*H*4-1 of the buffer, and each
\* of r, g, b it returns lies between the least and the greatest of the four
\* neighbours sampled, at any coordinate.
C9_SampleInBounds ==
    (pc = "returned" /\ args.fn = "sampleBilinear") =>
        /\ ret.reads \subseteq DataIndices
        /\ LET s == SampleCell(args.x, args.y)
               n00 == getPixel(args.imgData, s.x0, s.y0)
               n10 == getPixel(args.imgData, s.x1, s.y0)
               n01 == getPixel(args.imgData, s.x0, s.y1)
               n11 == getPixel(args.imgData, s.x1, s.y1)
           IN  /\ Between(ret.color.r, {n00.r, n10.r, n01.r, n11.r})
               /\ Between(ret.color.g, {n00.g, n10.g, n01.g, n11.g})
               /\ Between(ret.color.b, {n00.b, n10.b, n01.b, n11.b})
               /\ \A v \in {n00.r, n10.r, n01.r, n11.r, n00.g, n10.g, n01.g,
                            n11.g, n00.b, n10.b, n01.b, n11.b} : v \in 0..255

\* A sample at exactly (W-1, H-1) that blends different neighbours.
C9_Witness ==
    /\ pc = "returned"
    /\ args.fn = "sampleBilinear"
    /\ args.x = FInt(outputWidth - 1)
    /\ args.y = FInt(outputHeight - 1)
    /\ ret.color.r[2] > 1

\* A sample at a negative coordinate.
C9_WitnessNegative ==
    /\ pc = "returned"
    /\ args.fn = "sampleBilinear"
    /\ args.x[1] < 0
    /\ args.y[1] > outputHeight * args.y[2]
    /\ ret.color.r # NaN

(***************************************************************************)
(* The output buffer of morph, pixel by pixel.                             *)
(***************************************************************************)
CanvasPixels == (0..(outputWidth - 1)) \X (0..(outputHeight - 1))

\* The four bytes of the pixel q of a data array.
PixelOf(data, q) ==
    LET n == PixelIndex(q[1], q[2])
    IN  <<data[n], data[n + 1], data[n + 2], data[n + 3]>>

Unwritten == <<0, 0, 0, 0>>

\* p in the closed triangle tri, by the signs of the three cross products.
InsideClosed(p, tri) ==
    LET d1 == Cross(tri[1], tri[2], p)
        d2 == Cross(tri[2], tri[3], p)
        d3 == Cross(tri[3], tri[1], p)
    IN  /\ ~OutsideBoundingBox(p, tri)
        /\ \/ d1 >= 0 /\ d2 >= 0 /\ d3 >= 0
           \/ d1 <= 0 /\ d2 <= 0 /\ d3 <= 0

\* The destination triangle of the m-th returned triangle.
DstTriangle(m) == TriangleOf(avgPts, triOut[m])

\* C2: after morph of landmarks inside the canvas (equal in number), every
\* pixel of the canvas lies in a returned triangle and has been written
\* (alpha 255).
C2_FullCoverage ==
    (pc = "done" /\ Len(landmarks1) = Len(landmarks2)) =>
        \A q \in CanvasPixels :
            /\ \E m \in 1..Len(triOut) :
                   InsideClosed(PixelPoint(q[1], q[2]), DstTriangle(m))
            /\ PixelOf(outputData, q)[4] = 255

RedBlue ==
    /\ img1.kind = "red"
    /\ img2.kind = "blue"
    /\ img1.width = img2.width

\* C3: red and blue sources, landmarks1 = landmarks2, ratio 0.5: every pixel
\* of the returned buffer is (127 or 128, 0, 127 or 128).
C3_SolidBlend ==
    (pc = "done" /\ RedBlue /\ landmarks1 = landmarks2 /\ ratio = <<1, 2>>) =>
        \A q \in CanvasPixels :
            LET px == PixelOf(outputData, q)
            IN  px[1] \in {127, 128} /\ px[2] = 0 /\ px[3] \in {127, 128}

\* C5: with landmark lists of different lengths morph gets no further than
\* its error outcome.
C5_MismatchFailsFast ==
    Len(landmarks1) # Len(landmarks2) => pc \in {"morph", "threw"}

\* The maps and the bytes that the m-th returned triangle gives the pixel q.
MapFrom(m, pts) == computeAffine(DstTriangle(m), TriangleOf(pts, triOut[m]))
TrianglePixel(m, q) ==
    WarpedPixel(imgData1, MapFrom(m, allPts1), imgData2, MapFrom(m, allPts2),
                ratio, q[1], q[2])

\* The output is that of one image alone: the destination points are that
\* image's, every destination-to-source map is the identity, and a painted
\* pixel (x, y) holds the image's sample at (x, y).
DeterminedBy(pts, data) ==
    /\ \A n \in 1..Len(avgPts) : avgPts[n] = pts[n]
    /\ \A m \in 1..Len(triOut) : MapFrom(m, pts) = IdentityMap
    /\ \A q \in CanvasPixels :
           PixelOf(outputData, q)[4] = 255 =>
               LET c == sampleBilinear(data, FInt(q[1]), FInt(q[2]))
               IN  PixelOf(outputData, q) =
                       <<ToUint8Clamped(c.r), ToUint8Clamped(c.g),
                         ToUint8Clamped(c.b), 255>>

\* C7: at ratio 0 the output of morph is determined by image 1 alone, at
\* ratio 1 by image 2 alone.
C7_EndpointRatios ==
    pc = "done" =>
        /\ ratio = <<0, 1>> => DeterminedBy(allPts1, imgData1)
        /\ ratio = <<1, 1>> => DeterminedBy(allPts2, imgData2)

\* A morph at ratio 0 of two different images with different landmarks that
\* painted a pixel where the two images differ.
C7_Witness ==
    /\ pc = "done"
    /\ ratio = <<0, 1>>
    /\ img1.kind = "ramp"
    /\ Len(landmarks1) = Len(landmarks2)
    /\ allPts1 # allPts2
    /\ \E q \in CanvasPixels :
           /\ PixelOf(outputData, q)[4] = 255
           /\ PixelOf(imgData1, q) # PixelOf(imgData2, q)
           /\ PixelOf(outputData, q) = PixelOf(imgData1, q)

\* The pixels whose bytes differ between two buffers.
ChangedPixels(before, after) ==
    {q \in CanvasPixels : PixelOf(before, q) # PixelOf(after, q)}

OnSegment(p, a, b) ==
    /\ Cross(a, b, p) = 0
    /\ Min2(a.x, b.x) <= p.x /\ p.x <= Max2(a.x, b.x)
    /\ Min2(a.y, b.y) <= p.y /\ p.y <= Max2(a.y, b.y)

EdgeSets(tri) == {{tri[1], tri[2]}, {tri[2], tri[3]}, {tri[3], tri[1]}}

\* p lies on an edge that two of the returned triangles share.
OnSharedEdge(p) ==
    \E m, n \in 1..Len(triOut) :
        /\ m # n
        /\ \E e \in EdgeSets(DstTriangle(m)) \cap EdgeSets(DstTriangle(n)) :
               \E a, b \in e : a # b /\ OnSegment(p, a, b)

\* The returned triangles that hold the pixel q.
Holders(q) ==
    {m \in 1..Len(triOut) :
        /\ ~ZeroArea(DstTriangle(m))
        /\ InsideClosed(PixelPoint(q[1], q[2]), DstTriangle(m))}

\* One warpTriangle call changes only pixels inside its destination triangle
\* and keeps the buffer's extent.
WritesOwnTriangle ==
    (pc = "warp" /\ tnum' = tnum + 1) =>
        /\ DOMAIN outputData' = DataIndices
        /\ \A q \in ChangedPixels(outputData, outputData') :
               InsideClosed(PixelPoint(q[1], q[2]), DstTriangle(tnum + 1))

\* The final buffer at a pixel off every shared edge does not depend on the
\* order of the triangles: it is what each triangle holding the pixel
\* stores there, or the initial value when no triangle holds it.
OrderFree ==
    pc = "done" =>
        \A q \in CanvasPixels :
            ~OnSharedEdge(PixelPoint(q[1], q[2])) =>
                IF Holders(q) = {}
                THEN PixelOf(outputData, q) = Unwritten
                ELSE \A m \in Holders(q) :
                         PixelOf(outputData, q) = TrianglePixel(m, q)

\* C10: a warpTriangle call changes only output pixels inside the canvas and
\* inside its own destination triangle, edges included, and so the final
\* buffer is the same for every order of the triangles at each pixel that is
\* not on an edge shared by two triangles.
C10_FrameAndOrder == [][WritesOwnTriangle]_vars /\ []OrderFree

\* A call that wrote some pixels of a buffer and left written pixels of
\* earlier triangles, and unwritten ones, as they were.
C10_Witness ==
    /\ pc = "warp"
    /\ 2 <= tnum
    /\ tnum < Len(triOut)
    /\ \E q \in CanvasPixels :
           /\ PixelOf(outputData, q) # Unwritten
           /\ Holders(q) = {tnum}
           /\ ~OnSharedEdge(PixelPoint(q[1], q[2]))
    /\ \E q \in CanvasPixels : PixelOf(outputData, q) = Unwritten
    /\ \E q \in CanvasPixels :
           /\ PixelOf(outputData, q) # Unwritten
           /\ tnum \notin Holders(q)

\* C11: for point sequences of equal length, interpolatePoints at ratio 0
\* returns pts1 and at ratio 1 returns pts2, point for point.
C11_InterpolateEndpoints ==
    (pc = "returned" /\ args.fn = "interpolatePoints"
     /\ Len(args.pts1) = Len(args.pts2)) =>
        /\ args.ratio = <<0, 1>> => ret = args.pts1
        /\ args.ratio = <<1, 1>> => ret = args.pts2

\* A return at ratio 1 for two sequences of several points that differ at
\* every position in both coordinates.
C11_Witness ==
    /\ pc = "returned"
    /\ args.fn = "interpolatePoints"
    /\ args.ratio = <<1, 1>>
    /\ Len(args.pts1) >= 3
    /\ Len(args.pts2) = Len(args.pts1)
    /\ \A n \in 1..Len(args.pts1) :
           args.pts1[n].x # args.pts2[n].x /\ args.pts1[n].y # args.pts2[n].y
    /\ ret = args.pts2

Finite(v) == v[2] # 0

\* C12: for a source triangle with collinear vertices (repeated ones
\* included) and any destination triangle computeAffine returns the identity
\* map, and no coefficient it returns is a quotient by zero.
C12_CollinearIdentity ==
    (pc = "returned" /\ args.fn = "computeAffine") =>
        /\ ZeroArea(args.src) => ret.M = IdentityMap
        /\ \A k \in DOMAIN ret.M : Finite(ret.M[k])

\* A return for a source triangle of three distinct collinear vertices and a
\* destination triangle of non-zero area.
C12_Witness ==
    /\ pc = "returned"
    /\ args.fn = "computeAffine"
    /\ ZeroArea(args.src)
    /\ args.src[1] # args.src[2]
    /\ args.src[2] # args.src[3]
    /\ args.src[1] # args.src[3]
    /\ ~ZeroArea(args.dst)
    /\ ret.M = IdentityMap

(***************************************************************************)
(* The working triangle set of computeDelaunay as a mesh.                  *)
(***************************************************************************)
\* The edges of the working array, each as the ordered pair the triangle
\* lists it in.
DirectedEdges(tris) ==
    UNION {{<<tris[q].i, tris[q].j>>, <<tris[q].j, tris[q].k>>,
            <<tris[q].k, tris[q].i>>} : q \in 1..Len(tris)}

\* The three edges of the super-triangle of n points.
SuperEdges(n) == {{n, n + 1}, {n + 1, n + 2}, {n, n + 2}}

NoTriangleTwice(tris) ==
    Cardinality({{tris[q].i, tris[q].j, tris[q].k} : q \in 1..Len(tris)})
        = Len(tris)

\* No ordered pair is an edge of two triangles, so an undirected edge is in
\* at most two (once each way round); an edge that is not the
\* super-triangle's is in exactly two.
EdgesMatch(tris, n) ==
    LET D == DirectedEdges(tris)
    IN  /\ Cardinality(D) = 3 * Len(tris)
        /\ \A d \in D :
               /\ d[1] # d[2]
               /\ {d[1], d[2]} \notin SuperEdges(n) => <<d[2], d[1]>> \in D

\* Twice the signed area of the triangle t over the points allP.
Area2(t, allP) == Cross(At(allP, t.i), At(allP, t.j), At(allP, t.k))

RECURSIVE SumArea2(_, _)
SumArea2(tris, allP) ==
    IF tris = <<>> THEN 0
    ELSE Area2(Head(tris), allP) + SumArea2(Tail(tris), allP)

\* The triangles do not overlap: all wind the same way and their areas add
\* up to the area of the super-triangle.
NoOverlap(tris, allP, n) ==
    /\ \A q \in 1..Len(tris) : Area2(tris[q], allP) >= 0
    /\ SumArea2(tris, allP) = Area2([i |-> n, j |-> n + 1, k |-> n + 2], allP)

\* C13: after every insertion of computeDelaunay the working set is a
\* consistent mesh: no triangle twice, every undirected edge in at most two
\* triangles and, the three super-triangle edges apart, in exactly two, and
\* the triangles made on the cavity boundary do not overlap.
C13_MeshConsistent ==
    pc = "insert" =>
        /\ NoTriangleTwice(triangles)
        /\ EdgesMatch(triangles, Len(points))
        /\ NoOverlap(triangles, allPoints, Len(points))

\* An insertion loop that has replaced a cavity of several triangles and
\* holds inner edges as well as the super-triangle's.
C13_Witness ==
    /\ pc = "insert"
    /\ idx >= 3
    /\ Len(triangles) >= 7
    /\ \E q \in 1..Len(triangles) :
           /\ triangles[q].i < Len(points)
           /\ triangles[q].j < Len(points)
           /\ triangles[q].k < Len(points)
           /\ <<triangles[q].j, triangles[q].i>> \in DirectedEdges(triangles)

\* C14: every call of morpher.morph receives, for each slot, landmarks
\* detected from the image stored for that slot at the call.
C14_LandmarksOfStoredImage ==
    morphed.fn = "morph" =>
        /\ morphed.landmarks1 = [of |-> morphed.img1]
        /\ morphed.landmarks2 = [of |-> morphed.img2]

====
